---- MODULE Spec2Model ----
(***************************************************************************)
(* Model of the bar-record enrichment scripts of stockholm-bars:           *)
(*   scripts/geocode-bars-from-csv.js   (Photon variant, lines 1-160, and  *)
(*                                       Mapbox variant, lines 162-297)    *)
(*   scripts/update-bars-from-google-places.js                             *)
(*   scripts/categorize-bars-by-mood.js                                    *)
(* Each script is one sequential async main(); every await (remote call,   *)
(* pacing delay) is one step of the state machine.                         *)
(*                                                                         *)
(* JavaScript strings are sequences of one-character strings, so that      *)
(* trim(), replace() and toLowerCase() are computed and not assumed.       *)
(* JavaScript numbers are integers in units of 1e-5 (59.31667 is 5931667). *)
(***************************************************************************)
EXTENDS Integers, Sequences, FiniteSets, TLC

VARIABLES
  script,      \* which script this run executes
  env,         \* the run's environment: input file state and credentials
  rows,        \* the rows read from the input (rows / list in main)
  pc,          \* position of main()
  i,           \* loop index of main(), 1-based
  bars,        \* records built so far (bars.push / list mutated in place)
  coordCache,  \* the Photon variant's Map from addressKey to coordinates
  loc,         \* locals of the row in progress that survive an await
  counters,    \* updated / failed / done / invalidKeyReported
  calls,       \* log of the remote calls issued, in order
  store,       \* the output files: number of writes and last content
  exitCode,    \* process exit status, -1 while running
  vin,         \* function harnesses: the input under test
  vout,        \* function harnesses: results of the calls made so far
  paced        \* a pacing delay has elapsed since the last remote call

vars == <<script, env, rows, pc, i, bars, coordCache, loc, counters, calls,
          store, exitCode, vin, vout, paced>>

\* ------------------------------------------------------------------ bounds
MaxRows == 2

\* ------------------------------------------------------- JavaScript values
JNull == [t |-> "null"]
JNaN == [t |-> "nan"]
JStr(s) == [t |-> "str", s |-> s]
JNum(n) == [t |-> "num", n |-> n]
JArr(a) == [t |-> "arr", a |-> a]

Truthy(v) ==
  \/ v.t = "str" /\ v.s # <<>>
  \/ v.t = "num" /\ v.n # 0
  \/ v.t = "arr"

\* a || b ; the operand a is evaluated once
Or(a, b) == CHOOSE r \in {IF Truthy(v) THEN v ELSE b : v \in {a}} : TRUE

\* (a || '') for a value that is a string when truthy
StrOrEmpty(a) ==
  CHOOSE r \in {IF Truthy(v) /\ v.t = "str" THEN v.s ELSE <<>> : v \in {a}} : TRUE

\* ------------------------------------------------------------- characters
QUOTE == "\""
\* one character each: line feed, carriage return, the byte-order mark U+FEFF
NL == "\n"
CR == "\r"
BOM == "FEFF"

\* what trim() and \s take for white space
IsWs(c) == c \in {" ", "\t", NL, CR, BOM}
UpperChars == <<"N", "U", "L", "Y", "E", "S", "H", "T", "K", "O", "B">>
LowerChars == <<"n", "u", "l", "y", "e", "s", "h", "t", "k", "o", "b">>
Digits == <<"0", "1", "2", "3", "4", "5", "6", "7", "8", "9">>

ToLowerChar(c) ==
  IF \E k \in 1..Len(UpperChars) : UpperChars[k] = c
  THEN LowerChars[CHOOSE k \in 1..Len(UpperChars) : UpperChars[k] = c]
  ELSE c

\* The string operators below are local functions applied to the value of
\* their argument: a JavaScript method works on the string it is called on.
Str == Seq(STRING)

\* String.prototype.toLowerCase
ToLowerCase(str) ==
  LET f[s \in Str] == [k \in 1..Len(s) |-> ToLowerChar(s[k])]
  IN f[str]

IsDigit(c) == \E k \in 1..10 : Digits[k] = c
DigitVal(c) == (CHOOSE k \in 1..10 : Digits[k] = c) - 1

TrimLeft(str) ==
  LET f[s \in Str] == IF s # <<>> /\ IsWs(Head(s)) THEN f[Tail(s)] ELSE s
  IN f[str]

TrimRight(str) ==
  LET f[s \in Str] ==
        IF s # <<>> /\ IsWs(s[Len(s)]) THEN f[SubSeq(s, 1, Len(s) - 1)] ELSE s
  IN f[str]

\* String.prototype.trim
Trim(str) == TrimRight(TrimLeft(str))

\* s.replace(/^"|"$/g, '')
StripQuotes(str) ==
  LET f[s \in Str] ==
        LET a == IF s # <<>> /\ Head(s) = QUOTE THEN Tail(s) ELSE s
        IN IF a # <<>> /\ a[Len(a)] = QUOTE THEN SubSeq(a, 1, Len(a) - 1) ELSE a
  IN f[str]

\* s.replace(/\s+/g, r)
ReplaceWsRuns(str, r) ==
  LET f[s \in Str] ==
        IF s = <<>> THEN <<>>
        ELSE IF IsWs(Head(s)) THEN <<r>> \o f[TrimLeft(s)]
        ELSE <<Head(s)>> \o f[Tail(s)]
  IN f[str]

\* /^null$/i.test(s)
IsNullWord(s) == ToLowerCase(s) = <<"n", "u", "l", "l">>

\* String(v).replace(',', '.')  (first comma only)
ReplaceFirstComma(str) ==
  LET f[s \in Str] ==
        IF s = <<>> THEN <<>>
        ELSE IF Head(s) = "," THEN <<".">> \o Tail(s)
        ELSE <<Head(s)>> \o f[Tail(s)]
  IN f[str]

DigitPrefix(str) ==
  LET f[s \in Str] ==
        IF s # <<>> /\ IsDigit(Head(s)) THEN <<Head(s)>> \o f[Tail(s)] ELSE <<>>
  IN f[str]

IntVal(ds, acc) ==
  LET f[d \in Str, a \in Nat] ==
        IF d = <<>> THEN a ELSE f[Tail(d), a * 10 + DigitVal(Head(d))]
  IN f[ds, acc]

FracVal(ds, w) ==
  LET f[d \in Str, v \in Nat] ==
        IF d = <<>> \/ v = 0 THEN 0
        ELSE DigitVal(Head(d)) * v + f[Tail(d), v \div 10]
  IN f[ds, w]

\* parseFloat(s) for unsigned decimals, in units of 1e-5
ParseFloat(str) ==
  LET f[s \in Str] ==
        LET t == TrimLeft(s)
            ip == DigitPrefix(t)
            rest == SubSeq(t, Len(ip) + 1, Len(t))
            fp == IF rest # <<>> /\ Head(rest) = "." THEN DigitPrefix(Tail(rest)) ELSE <<>>
        IN IF ip = <<>> /\ fp = <<>> THEN JNaN
           ELSE JNum(IntVal(ip, 0) * 100000 + FracVal(fp, 10000))
  IN f[str]

\* parseInt(s, 10) for unsigned integers, in units of 1e-5
ParseInt(str) ==
  LET f[ip \in Str] == IF ip = <<>> THEN JNaN ELSE JNum(IntVal(ip, 0) * 100000)
  IN f[DigitPrefix(TrimLeft(str))]

\* parseFloat(String(v).replace(',', '.')) ; String(number) parses back to
\* the same number
ParseNumber(v) ==
  IF v.t = "str" THEN ParseFloat(ReplaceFirstComma(v.s))
  ELSE IF v.t = "num" THEN v
  ELSE JNaN

\* JSON.stringify of a number field: NaN is written as null
JsonNumber(v) == IF v.t = "nan" THEN JNull ELSE v

\* ---------------------------------------------------------------- CSV text
\* s.includes(c)
Includes(s, c) == \E k \in 1..Len(s) : s[k] = c

\* s.replace(/"/g, '""')
DoubleQuotes(str) ==
  LET f[s \in Str] ==
        IF s = <<>> THEN <<>>
        ELSE IF Head(s) = QUOTE THEN <<QUOTE, QUOTE>> \o f[Tail(s)]
        ELSE <<Head(s)>> \o f[Tail(s)]
  IN f[str]

\* the decimal digits of a natural number
IntDigits(n) ==
  LET f[k \in Nat] ==
        IF k < 10 THEN <<Digits[k + 1]>> ELSE f[k \div 10] \o <<Digits[(k % 10) + 1]>>
  IN f[n]

\* the digits after the decimal point of w/100000, without trailing zeros
FracDigits(w) ==
  LET f[k \in Nat, width \in Nat] ==
        IF k = 0 THEN <<>>
        ELSE IF k % 10 = 0 THEN f[k \div 10, width - 1]
        ELSE LET ds == IntDigits(k)
             IN [j \in 1..width |-> IF j <= width - Len(ds) THEN "0"
                                    ELSE ds[j - (width - Len(ds))]]
  IN f[w, 5]

\* String(v) for the values a bar holds
ToStr(a) ==
  LET f[v \in {a}] ==
        IF v.t = "str" THEN v.s
        ELSE IF v.t = "num"
             THEN IntDigits(v.n \div 100000)
                    \o (IF v.n % 100000 = 0 THEN <<>>
                        ELSE <<".">> \o FracDigits(v.n % 100000))
        ELSE IF v.t = "nan" THEN <<"N", "a", "N">>
        ELSE IF v.t = "null" THEN <<"n", "u", "l", "l">>
        ELSE <<"u", "n", "d", "e", "f", "i", "n", "e", "d">>
  IN f[a]

\* v == null
IsNullish(v) == v.t \in {"null", "undefined"}

\* cells.join(sep)
Join(cells, sep) ==
  LET g[c \in {cells}] ==
        LET f[k \in 0..Len(c)] ==
              IF k = 0 THEN <<>>
              ELSE IF k = 1 THEN c[1]
              ELSE f[k - 1] \o sep \o c[k]
        IN f[Len(c)]
  IN g[cells]

\* a field of a record that may lack the key
Field(b, k) == IF k \in DOMAIN b THEN b[k] ELSE [t |-> "undefined"]

\* ------------------------------------------------------------ input pools
\* Addresses, names and cell values, as character sequences. Found is the
\* address Google has on file for a place when it is not the sheet's.
Txt ==
  [
    Empty |-> <<>>,
    Raw |-> <<"H", "g", " ", "6">>,
    RawWide |-> <<"H", "g", " ", " ", "6">>,
    Fix |-> <<"T", "j", " ", "4">>,
    FixQuoted |-> <<QUOTE, "T", "j", " ", "4", QUOTE>>,
    Null |-> <<"n", "u", "l", "l">>,
    NullUpper |-> <<"N", "U", "L", "L">>,
    Short |-> <<"H", "g">>,
    Blank |-> <<QUOTE, " ", " ", " ", QUOTE>>,
    Kvarnen |-> <<"K", "v", " ", "B", "a", "r">>,
    KvSlug |-> <<"k", "v", "-", "b", "a", "r">>,
    Unknown |-> <<"U", "n", "k", "n", "o", "w", "n">>,
    unknown |-> <<"u", "n", "k", "n", "o", "w", "n">>,
    Lat |-> <<"5", "9", ",", "3">>,
    Lng |-> <<"1", "8", ".", "0", "7">>,
    DefLat |-> <<"5", "9", ".", "3", "1", "6", "6", "7">>,
    DefLng |-> <<"1", "8", ".", "0", "6", "7", "4", "5">>,
    Price |-> <<"8", "5">>,
    Yes |-> <<"y", "e", "s">>,
    YesUpper |-> <<"Y", "E", "S">>,
    YesMixed |-> <<"Y", "e", "s">>,
    YesPadded |-> <<" ", "y", "e", "s">>,
    No |-> <<"n", "o">>,
    Place |-> <<"p", "1">>,
    Found |-> <<"T", "j", " ", "4", "B">>,
    Photo |-> <<"f", "1">>,
    Comma |-> <<"a", ",", " ", "b">>,
    Quote |-> <<"a", " ", QUOTE, "b", QUOTE>>,
    Newline |-> <<"a", NL, "b">>,
    CommaQuote |-> <<"O", ",", " ", QUOTE, "B", QUOTE>>,
    Bar1 |-> <<"b", "1">>,
    EnvKey |-> <<"E">>,
    EnvKeyPadded |-> <<" ", "E">>,
    FileKey |-> <<"F">>,
    ConfigKey |-> <<"G">>,
    \* request URLs: /, /a.js, /a.js?q, /d, /d/../a.js, /../s.js, /../r/a.js,
    \* /../rx/s.js
    UrlRoot |-> <<"/">>,
    UrlFile |-> <<"/", "a", ".", "j">>,
    UrlQuery |-> <<"/", "a", ".", "j", "?", "q">>,
    UrlDir |-> <<"/", "d">>,
    UrlDotDot |-> <<"/", "d", "/", ".", ".", "/", "a", ".", "j">>,
    UrlAbove |-> <<"/", ".", ".", "/", "s", ".", "j">>,
    UrlBack |-> <<"/", ".", ".", "/", "r", "/", "a", ".", "j">>,
    UrlSibling |-> <<"/", ".", ".", "/", "r", "x", "/", "s", ".", "j">>,
    IndexHtml |-> <<"i", ".", "h">> ]

\* A row with every column the scripts read; a CSV cell that is empty is '',
\* a JSON key that is missing is null/undefined.
BaseRow ==
  [id |-> JNull, bar_name |-> JStr(Txt.Kvarnen), name |-> JNull,
   location |-> JNull, address |-> JNull, correct_address |-> JNull,
   lat |-> JNull, lng |-> JNull, price |-> JNull, dance_floor |-> JNull,
   dance_notes |-> JNull, last_updated |-> JNull,
   \* the other spellings of the field-name table; no script reads them
   full_address |-> JNull, latitude |-> JNull, longitude |-> JNull,
   cheapest_beer_sek |-> JNull, danceFloor |-> JNull, danceNotes |-> JNull,
   \* what the Places pass and the mood pass add to a record of bars.json
   place_id |-> JNull, photo_reference |-> JNull, vibes |-> JNull, moods |-> JNull]

\* Rows as parseCSV yields them: every cell of a column in the header is a
\* trimmed string without quote characters, '' when empty; a column that
\* is not in the header is undefined.
CsvRowPool ==
  { \* raw address only, coordinates known, the id filled in
    [BaseRow EXCEPT !.id = JStr(Txt.KvSlug),
                    !.location = JStr(Txt.Raw), !.correct_address = JStr(Txt.Empty),
                    !.lat = JStr(Txt.Lat), !.lng = JStr(Txt.Lng)],
    \* the same address spelled with two blanks, no coordinates
    [BaseRow EXCEPT !.location = JStr(Txt.RawWide), !.correct_address = JStr(Txt.Empty),
                    !.lat = JStr(Txt.Empty), !.lng = JStr(Txt.Empty)],
    \* corrected address present, raw address is the placeholder
    [BaseRow EXCEPT !.location = JStr(Txt.Raw), !.correct_address = JStr(Txt.Fix),
                    !.lat = JStr(Txt.Empty), !.lng = JStr(Txt.Empty)],
    \* a sheet whose header uses the other spellings: address, latitude,
    \* longitude, cheapest_beer_sek, danceFloor, danceNotes
    [BaseRow EXCEPT !.address = JStr(Txt.Fix), !.correct_address = JStr(Txt.Empty),
                    !.latitude = JStr(Txt.Lat), !.longitude = JStr(Txt.Lng),
                    !.cheapest_beer_sek = JStr(Txt.Price),
                    !.danceFloor = JStr(Txt.Yes), !.danceNotes = JStr(Txt.Short)],
    \* placeholder "null" as the address
    [BaseRow EXCEPT !.location = JStr(Txt.Null), !.lat = JStr(Txt.Empty), !.lng = JStr(Txt.Empty)],
    \* upper-case placeholder
    [BaseRow EXCEPT !.location = JStr(Txt.NullUpper), !.lat = JStr(Txt.Empty), !.lng = JStr(Txt.Empty)],
    \* no address at all
    [BaseRow EXCEPT !.location = JStr(Txt.Empty), !.lat = JStr(Txt.Lat), !.lng = JStr(Txt.Lng)],
    \* the default city-centre coordinates
    [BaseRow EXCEPT !.location = JStr(Txt.Raw), !.lat = JStr(Txt.DefLat), !.lng = JStr(Txt.DefLng)] }

\* Rows that only a JSON input can carry: quoted or padded strings, numbers.
JsonRowPool ==
  { [BaseRow EXCEPT !.location = JStr(Txt.Raw), !.correct_address = JStr(Txt.FixQuoted)],
    \* quoted blanks: non-empty after quote stripping, empty after trim
    [BaseRow EXCEPT !.location = JStr(Txt.Blank)],
    \* a record of a bars.json that the Places pass and the mood pass enriched
    [BaseRow EXCEPT !.location = JStr(Txt.Short), !.lat = JNum(5931700), !.lng = JNum(1807100),
                    !.place_id = JStr(Txt.Place), !.photo_reference = JStr(Txt.Photo),
                    !.vibes = JArr(<<"chill">>), !.moods = JArr(<<"romantic">>)] }

\* ------------------------------------------------------ shared row helpers
\* (row.bar_name || row.name || 'Unknown').replace(/^"|"$/g, '')
BarName(row) == StripQuotes(StrOrEmpty(Or(Or(row.bar_name, row.name), JStr(Txt.Unknown))))

\* row.id || barName.toLowerCase().replace(/\s+/g, '-')
BarId(row) == Or(row.id, JStr(ReplaceWsRuns(ToLowerCase(BarName(row)), "-")))

\* (row.correct_address || '').trim().replace(/^"|"$/g, '') || null
CorrectAddr(row) ==
  Or(JStr(StripQuotes(Trim(StrOrEmpty(row.correct_address)))), JNull)

\* (row.dance_floor || 'unknown').toLowerCase()
DanceFloor(row) == JStr(ToLowerCase(StrOrEmpty(Or(row.dance_floor, JStr(Txt.unknown)))))

Undef == [t |-> "undefined"]

\* JSON.stringify(bars): NaN becomes null, undefined keys are left out
ToJson(bs) ==
  [k \in 1..Len(bs) |->
     [f \in {g \in DOMAIN bs[k] : bs[k][g] # Undef} |-> JsonNumber(bs[k][f])]]

\* ------------------------------------------------------- parseCSV (CSV in)
\* the k-th smallest element of a finite set of numbers
Nth(S, k) == CHOOSE x \in S : Cardinality({y \in S : y < x}) = k - 1

\* the pieces of x between the positions in cuts, in order
Pieces(x, cuts) ==
  LET P(c, n) ==
        [k \in 1..(n + 1) |->
           SubSeq(x, IF k = 1 THEN 1 ELSE Nth(c, k - 1) + 1,
                     IF k > n THEN Len(x) ELSE Nth(c, k) - 1)]
  IN CHOOSE r \in {P(c, Cardinality(c)) : c \in {cuts}} : TRUE

\* function parseCSVLine(line): a quote toggles inQuotes and is dropped, a
\* comma outside quotes ends the cell, a line feed outside quotes ends the
\* line; every cell is trimmed; a last cell is pushed when it is not empty.
\* The loop is computed position by position: inQuotes at k is the parity
\* of the quotes before k.
parseCSVLine(line) ==
  LET g[l \in Str] ==
        LET quotes == {j \in 1..Len(l) : l[j] = QUOTE}
            InQuotes(k) == Cardinality({j \in quotes : j < k}) % 2 = 1
            breaks == {k \in 1..Len(l) : l[k] = NL /\ ~InQuotes(k)}
            stop == IF breaks = {} THEN Len(l) + 1 ELSE Nth(breaks, 1)
            seps == {k \in 1..Len(l) : k <= stop /\ l[k] \in {",", NL} /\ ~InQuotes(k)}
            Cells(cur) ==
              LET n == IF SelectSeq(cur[Len(cur)], LAMBDA c : c # QUOTE) # <<>>
                          /\ stop > Len(l)
                       THEN Len(cur) ELSE Len(cur) - 1
              IN [k \in 1..n |-> Trim(SelectSeq(cur[k], LAMBDA c : c # QUOTE))]
        IN CHOOSE r \in
             {Cells(cur) :
                cur \in {Pieces(SubSeq(l, 1, IF stop > Len(l) THEN Len(l) ELSE stop), seps)}} :
             TRUE
  IN g[line]

\* text.split(/\r?\n/).filter(Boolean)
SplitLines(text) ==
  LET g[x \in Str] ==
        LET DropCr(l) == IF l # <<>> /\ l[Len(l)] = CR THEN SubSeq(l, 1, Len(l) - 1) ELSE l
            raw == Pieces(x, {k \in 1..Len(x) : x[k] = NL})
            lines == [k \in 1..Len(raw) |-> IF k < Len(raw) THEN DropCr(raw[k]) ELSE raw[k]]
        IN SelectSeq(lines, LAMBDA l : l # <<>>)
  IN g[text]

\* function parseCSV(text): one row per line after the header, a function
\* from the header cells to the cells of the line ('' for a missing cell)
parseCSV(text) ==
  LET RowOf(header, values) ==
        [h \in {header[j] : j \in 1..Len(header)} |->
           LET j == CHOOSE m \in 1..Len(header) :
                      /\ header[m] = h
                      /\ \A n \in (m + 1)..Len(header) : header[n] # h
           IN IF j <= Len(values) THEN values[j] ELSE <<>>]
      Rows(lines) ==
        [k \in 1..(Len(lines) - 1) |->
           CHOOSE r \in {RowOf(h, v) : h \in {parseCSVLine(lines[1])},
                                        v \in {parseCSVLine(lines[k + 1])}} : TRUE]
  IN CHOOSE r \in {Rows(lines) : lines \in {SplitLines(text)}} : TRUE

\* the column names the scripts read, as header cells
ColumnChars ==
  [ id |-> <<"i", "d">>,
    bar_name |-> <<"b", "a", "r", "_", "n", "a", "m", "e">>,
    name |-> <<"n", "a", "m", "e">>,
    location |-> <<"l", "o", "c", "a", "t", "i", "o", "n">>,
    address |-> <<"a", "d", "d", "r", "e", "s", "s">>,
    correct_address |-> <<"c", "o", "r", "r", "e", "c", "t", "_", "a", "d", "d", "r", "e", "s", "s">>,
    lat |-> <<"l", "a", "t">>,
    lng |-> <<"l", "n", "g">>,
    price |-> <<"p", "r", "i", "c", "e">>,
    dance_floor |-> <<"d", "a", "n", "c", "e", "_", "f", "l", "o", "o", "r">>,
    dance_notes |-> <<"d", "a", "n", "c", "e", "_", "n", "o", "t", "e", "s">>,
    last_updated |-> <<"l", "a", "s", "t", "_", "u", "p", "d", "a", "t", "e", "d">> ]

\* a parsed row as the scripts see it: row.f is the cell under header f,
\* undefined when the header has no such column
CsvRecord(row) ==
  [f \in DOMAIN ColumnChars |->
     IF ColumnChars[f] \in DOMAIN row THEN JStr(row[ColumnChars[f]]) ELSE JNull]

\* ------------------------------------------ generate-bars-info.js (CSV out)
\* the header of both CSV writers, one cell per column
CsvHeader ==
  << <<"i", "d">>,
     <<"b", "a", "r", "_", "n", "a", "m", "e">>,
     <<"a", "d", "d", "r", "e", "s", "s">>,
     <<"c", "o", "r", "r", "e", "c", "t", "_", "a", "d", "d", "r", "e", "s", "s">>,
     <<"l", "a", "t">>,
     <<"l", "n", "g">>,
     <<"p", "r", "i", "c", "e">>,
     <<"o", "p", "e", "n", "i", "n", "g", "_", "h", "o", "u", "r", "s">>,
     <<"d", "a", "n", "c", "e", "_", "f", "l", "o", "o", "r">>,
     <<"d", "a", "n", "c", "e", "_", "n", "o", "t", "e", "s">>,
     <<"l", "a", "s", "t", "_", "u", "p", "d", "a", "t", "e", "d">> >>

\* '"' + s.replace(/"/g, '""') + '"'
Quoted(s) == <<QUOTE>> \o DoubleQuotes(s) \o <<QUOTE>>

\* function escapeCsv(val)
escapeCsv(val) ==
  LET f[s \in Str] ==
        IF Includes(s, ",") \/ Includes(s, QUOTE) \/ Includes(s, NL) \/ Includes(s, CR)
        THEN Quoted(s) ELSE s
  IN IF IsNullish(val) THEN <<>> ELSE f[Trim(ToStr(val))]

\* one element of rows: the cells of bar b (opening_hours is not modelled:
\* the cell of a bar without opening hours is '')
GeneratorRow(b) ==
  << escapeCsv(Field(b, "id")), escapeCsv(Field(b, "bar_name")),
     escapeCsv(Or(Field(b, "location"), Field(b, "address"))),
     escapeCsv(Or(Field(b, "correct_address"), JStr(<<>>))),
     escapeCsv(Field(b, "lat")), escapeCsv(Field(b, "lng")),
     escapeCsv(Field(b, "price")), <<>>,
     escapeCsv(Field(b, "dance_floor")), escapeCsv(Field(b, "dance_notes")),
     escapeCsv(Field(b, "last_updated")) >>

\* the text written to bars-info.csv for the bars of bars.json
generateBarsInfo(bs) ==
  <<BOM>> \o Join(<<Join(CsvHeader, <<",">>)>>
                    \o [k \in 1..Len(bs) |-> Join(GeneratorRow(bs[k]), <<",">>)],
                  <<NL>>)

\* ------------------------------- geocode-bars-from-csv.js, Photon variant
\* (row.correct_address || row.location || row.address || '').trim().replace(/^"|"$/g, '')
PhotonLocation(row) ==
  StripQuotes(Trim(StrOrEmpty(Or(Or(row.correct_address, row.location), row.address))))

addressKey(l) == IF l = <<>> THEN <<>> ELSE ReplaceWsRuns(Trim(l), " ")

\* row.lat != null ? parseFloat(String(row.lat).replace(',', '.')) : null
CoordNotNull(v) == IF v.t # "null" THEN ParseNumber(v) ELSE JNull

\* if (location && location.length > 2 && !/^null$/i.test(location))
PhotonGuard(location) ==
  location # <<>> /\ Len(location) > 2 /\ ~IsNullWord(location)

\* geocodePhoton's early return: no request for a blank or "null" address
PhotonFetches(address) ==
  address # <<>> /\ Trim(address) # <<>> /\ ~IsNullWord(address)

\* two answers of the geocoder, [lng, lat]: the point of a street address,
\* and the city centre, which is what a query that only matches the city
\* ("..., Stockholm, Sweden") gets as its first feature
CenterP == <<1807100, 5931700>>
CenterQ == <<1806745, 5931667>>

\* What the remote geocoder can answer: the request throws, the body is not
\* JSON, or it is JSON with a (possibly empty) feature list; a feature
\* carries coordinates, too few coordinates, or none.
\* kind names the case for the call log: "error", "malformed", "zero", "ok".
GeoResponses ==
  { [kind |-> "error", threw |-> TRUE, parsed |-> FALSE, features |-> <<>>],
    [kind |-> "malformed", threw |-> FALSE, parsed |-> FALSE, features |-> <<>>],
    [kind |-> "zero", threw |-> FALSE, parsed |-> TRUE, features |-> <<>>],
    [kind |-> "malformed", threw |-> FALSE, parsed |-> TRUE, features |-> <<JNull>>],
    [kind |-> "malformed", threw |-> FALSE, parsed |-> TRUE, features |-> <<JArr(<<CenterP[1]>>)>>],
    [kind |-> "ok", threw |-> FALSE, parsed |-> TRUE, features |-> <<JArr(CenterP)>>],
    [kind |-> "ok", threw |-> FALSE, parsed |-> TRUE, features |-> <<JArr(CenterQ)>>] }

\* geocodePhoton after the fetch: [lng, lat] or null
geocodePhoton(resp) ==
  IF resp.threw \/ ~resp.parsed THEN JNull
  ELSE IF Len(resp.features) > 0
          /\ resp.features[1].t = "arr" /\ Len(resp.features[1].a) >= 2
       THEN JArr(<<resp.features[1].a[1], resp.features[1].a[2]>>)
       ELSE JNull

\* if (center) coordCache.set(key, { lng: center[0], lat: center[1] })
CacheSet(cache, key, center) ==
  IF center # JNull
  THEN (key :> [lng |-> JNum(center.a[1]), lat |-> JNum(center.a[2])]) @@ cache
  ELSE cache

\* Mutation of PhotonCoord: a cache miss clears the coordinate.
PhotonCoord_ClearsOnMiss(cache, key, guard, field, old) ==
  IF guard THEN (IF key \in DOMAIN cache THEN cache[key][field] ELSE JNull) ELSE old

\* const cached = coordCache.get(key); if (cached) { lng = cached.lng; lat = cached.lat; }
PhotonCoord(cache, key, guard, field, old) ==
  IF guard /\ key \in DOMAIN cache THEN cache[key][field] ELSE old

PhotonEntry(row, lat, lng) ==
  LET correctAddr == CorrectAddr(row)
      outAddress ==
        Or(correctAddr,
           Or(JStr(StripQuotes(Trim(StrOrEmpty(Or(row.location, row.address))))), JNull))
  IN [id |-> BarId(row), bar_name |-> JStr(BarName(row)),
      location |-> outAddress, lat |-> lat, lng |-> lng,
      price |-> IF row.price.t # "null" THEN ParseInt(StrOrEmpty(row.price)) ELSE JNull,
      dance_floor |-> DanceFloor(row),
      dance_notes |-> Or(row.dance_notes, JNull),
      last_updated |-> Or(row.last_updated, JNull),
      correct_address |-> IF Truthy(correctAddr) THEN correctAddr ELSE Undef]

NoLoc == [center |-> JNull, place |-> JNull, details |-> JNull, moods |-> <<>>]

\* Mutation of NextRow: the loop ends after its first row.
NextRow_EndsLoop == "write"

\* for (let i = 0; i < rows.length; i++): the next row, or the code after
\* the loop
NextRow == IF i = Len(rows) THEN "write" ELSE "row"

\* lines 118-124: cache miss, the lookup and what it stores
PhotonLookup ==
  /\ script = "geocode" /\ pc = "row"
  /\ LET location == PhotonLocation(rows[i])
         key == addressKey(location)
     IN /\ PhotonGuard(location)
        /\ key \notin DOMAIN coordCache
        /\ \E resp \in GeoResponses :
             LET fetched == PhotonFetches(location)
                 center == IF fetched THEN geocodePhoton(resp) ELSE JNull
             IN /\ coordCache' = CacheSet(coordCache, key, center)
                /\ calls' = IF fetched
                            THEN Append(calls, [api |-> "photon", row |-> i,
                                                arg |-> location, kind |-> resp.kind])
                            ELSE calls
                /\ paced' = IF fetched THEN FALSE ELSE paced
  /\ pc' = "sleep"
  /\ UNCHANGED <<script, env, rows, i, bars, loc, counters, store, exitCode, vin, vout>>

\* line 124: await new Promise(r => setTimeout(r, 250))
PhotonSleep ==
  /\ script = "geocode" /\ pc = "sleep"
  /\ pc' = "emit"
  /\ UNCHANGED <<script, env, rows, i, bars, coordCache, loc, counters, calls,
                 store, exitCode, vin, vout>>
  /\ paced' = TRUE

\* lines 112-117 and 126-151 for a row that needs no (further) lookup
PhotonEmit ==
  /\ script = "geocode"
  /\ LET row == rows[i]
         location == PhotonLocation(row)
         key == addressKey(location)
         guard == PhotonGuard(location)
     IN /\ \/ pc = "emit"
           \/ pc = "row" /\ (~PhotonGuard(location) \/ key \in DOMAIN coordCache)
        /\ bars' = Append(bars,
             PhotonEntry(row,
               PhotonCoord(coordCache, key, guard, "lat", CoordNotNull(row.lat)),
               PhotonCoord(coordCache, key, guard, "lng", CoordNotNull(row.lng))))
  /\ i' = i + 1
  /\ pc' = NextRow
  /\ UNCHANGED <<script, env, rows, coordCache, loc, counters, calls, store,
                 exitCode, vin, vout, paced>>

\* ------------------------------- geocode-bars-from-csv.js, Mapbox variant
\* (row.location || '').trim().replace(/^"|"$/g, '')
MapboxLocation(row) == StripQuotes(Trim(StrOrEmpty(row.location)))

\* row.lat ? parseFloat(String(row.lat).replace(',', '.')) : null
CoordTruthy(v) == IF Truthy(v) THEN ParseNumber(v) ELSE JNull

\* if (location && (!lat || !lng || (lat === 59.31667 && lng === 18.06745)))
MapboxGuard(location, lat, lng) ==
  /\ location # <<>>
  /\ \/ ~Truthy(lat)
     \/ ~Truthy(lng)
     \/ lat = JNum(CenterQ[2]) /\ lng = JNum(CenterQ[1])

\* Mutation of MapboxFetches: the early return without the 'null' test.
MapboxFetches_NoNullTest(address) == address # <<>>

\* geocode's early return: if (!address || !token || address === 'null')
MapboxFetches(address) == address # <<>> /\ address # Txt.Null

\* The Mapbox answers: a feature carries a center pair or none.
MapboxResponses ==
  { [kind |-> "error", threw |-> TRUE, parsed |-> FALSE, features |-> <<>>],
    [kind |-> "malformed", threw |-> FALSE, parsed |-> FALSE, features |-> <<>>],
    [kind |-> "zero", threw |-> FALSE, parsed |-> TRUE, features |-> <<>>],
    [kind |-> "malformed", threw |-> FALSE, parsed |-> TRUE, features |-> <<JNull>>],
    [kind |-> "ok", threw |-> FALSE, parsed |-> TRUE, features |-> <<JArr(CenterP)>>],
    [kind |-> "ok", threw |-> FALSE, parsed |-> TRUE, features |-> <<JArr(CenterQ)>>] }

\* geocode after the fetch: data.features[0].center or null
geocode(resp) ==
  IF resp.threw \/ ~resp.parsed THEN JNull
  ELSE IF Len(resp.features) > 0 THEN resp.features[1] ELSE JNull

\* if (center) { lng = center[0]; lat = center[1]; }
MapboxCoord(center, k, old) == IF Truthy(center) THEN JNum(center.a[k]) ELSE old

MapboxEntry(row, lat, lng) ==
  [id |-> BarId(row), bar_name |-> JStr(BarName(row)),
   location |-> Or(JStr(MapboxLocation(row)), JNull), lat |-> lat, lng |-> lng,
   price |-> IF Truthy(row.price) THEN ParseInt(StrOrEmpty(row.price)) ELSE JNull,
   dance_floor |-> DanceFloor(row),
   dance_notes |-> Or(row.dance_notes, JNull),
   last_updated |-> Or(row.last_updated, JNull)]

\* lines 262-263: the lookup
MapboxLookup ==
  /\ script = "mapbox" /\ pc = "row"
  /\ LET location == MapboxLocation(rows[i])
     IN /\ MapboxGuard(location, CoordTruthy(rows[i].lat), CoordTruthy(rows[i].lng))
        /\ \E resp \in MapboxResponses :
             LET fetched == MapboxFetches(location)
                 center == IF fetched THEN geocode(resp) ELSE JNull
             IN /\ loc' = [loc EXCEPT !.center = center]
                /\ calls' = IF fetched
                            THEN Append(calls, [api |-> "mapbox", row |-> i,
                                                arg |-> location, kind |-> resp.kind])
                            ELSE calls
                /\ paced' = IF fetched THEN FALSE ELSE paced
  /\ pc' = "sleep"
  /\ UNCHANGED <<script, env, rows, i, bars, coordCache, counters, store,
                 exitCode, vin, vout>>

\* line 268: await new Promise(r => setTimeout(r, 120))
MapboxSleep ==
  /\ script = "mapbox" /\ pc = "sleep"
  /\ pc' = "emit"
  /\ UNCHANGED <<script, env, rows, i, bars, coordCache, loc, counters, calls,
                 store, exitCode, vin, vout>>
  /\ paced' = TRUE

\* lines 256-261, 264-267 and 271-288
MapboxEmit ==
  /\ script = "mapbox"
  /\ LET row == rows[i]
         lat == CoordTruthy(row.lat)
         lng == CoordTruthy(row.lng)
     IN /\ \/ pc = "emit"
           \/ pc = "row" /\ ~MapboxGuard(MapboxLocation(row), lat, lng)
        /\ bars' = Append(bars,
             MapboxEntry(row,
               MapboxCoord(loc.center, 2, lat), MapboxCoord(loc.center, 1, lng)))
  /\ i' = i + 1
  /\ pc' = NextRow
  /\ loc' = NoLoc
  /\ UNCHANGED <<script, env, rows, coordCache, counters, calls, store,
                 exitCode, vin, vout, paced>>

\* ------------------------------------ update-bars-from-google-places.js

HighRating == 420000

\* [...new Set(vibes)]: first occurrences, in order
RECURSIVE DedupFrom(_, _)
DedupFrom(seen, q) ==
  IF q = <<>> THEN seen
  ELSE IF \E k \in 1..Len(seen) : seen[k] = Head(q) THEN DedupFrom(seen, Tail(q))
  ELSE DedupFrom(Append(seen, Head(q)), Tail(q))

Dedup(q) == DedupFrom(<<>>, q)

\* Mutation of deriveVibes: the rating has to exceed the threshold.
deriveVibes_StrictThreshold(row, rating) ==
  LET dance == ToLowerCase(StrOrEmpty(row.dance_floor))
      v1 == IF dance = Txt.Yes THEN <<"party", "girls-night">> ELSE <<>>
      v2 == IF rating.t = "num" /\ rating.n > HighRating
            THEN v1 \o <<"dating", "chill">> ELSE v1
      v3 == IF Len(v2) = 0 THEN <<"chill">> ELSE v2
  IN Dedup(v3)

\* function deriveVibes(row, rating)
deriveVibes(row, rating) ==
  LET dance == ToLowerCase(StrOrEmpty(row.dance_floor))
      v1 == IF dance = Txt.Yes THEN <<"party", "girls-night">> ELSE <<>>
      v2 == IF rating.t = "num" /\ rating.n >= HighRating
            THEN v1 \o <<"dating", "chill">> ELSE v1
      v3 == IF Len(v2) = 0 THEN <<"chill">> ELSE v2
  IN Dedup(v3)

PlacesRowPool ==
  { [BaseRow EXCEPT !.id = JStr(Txt.KvSlug),
                    !.address = JStr(Txt.Raw), !.correct_address = JStr(Txt.Empty),
                    !.lat = JStr(Txt.Lat), !.lng = JStr(Txt.Lng), !.dance_floor = JStr(Txt.YesUpper)],
    [BaseRow EXCEPT !.address = JStr(Txt.Raw), !.correct_address = JStr(Txt.Fix),
                    !.lat = JStr(Txt.Empty), !.lng = JStr(Txt.Empty), !.dance_floor = JStr(Txt.No)],
    \* an input that uses the other spellings of the keys
    [BaseRow EXCEPT !.bar_name = JNull, !.name = JStr(Txt.Kvarnen), !.location = JStr(Txt.Raw),
                    !.latitude = JStr(Txt.Lat), !.longitude = JStr(Txt.Lng),
                    !.cheapest_beer_sek = JStr(Txt.Price),
                    !.danceFloor = JStr(Txt.Yes), !.danceNotes = JStr(Txt.Short),
                    !.place_id = JStr(Txt.Place), !.photo_reference = JStr(Txt.Photo),
                    !.vibes = JArr(<<"chill">>), !.moods = JArr(<<"romantic">>)] }


\* What Find Place can answer: the request throws, the status is an error
\* (with or without an "invalid API key" message), ZERO_RESULTS, or OK with
\* a first candidate that may lack geometry or place_id.
FindResponses ==
  { [kind |-> "error", threw |-> TRUE, status |-> "", invalidKey |-> FALSE, candidates |-> <<>>],
    [kind |-> "error", threw |-> FALSE, status |-> "REQUEST_DENIED", invalidKey |-> TRUE, candidates |-> <<>>],
    [kind |-> "error", threw |-> FALSE, status |-> "OVER_QUERY_LIMIT", invalidKey |-> FALSE, candidates |-> <<>>],
    [kind |-> "zero", threw |-> FALSE, status |-> "ZERO_RESULTS", invalidKey |-> FALSE, candidates |-> <<>>],
    [kind |-> "ok", threw |-> FALSE, status |-> "OK", invalidKey |-> FALSE,
     candidates |-> <<[formatted_address |-> JStr(Txt.Fix), lat |-> JNum(CenterP[2]),
                       lng |-> JNum(CenterP[1]), place_id |-> JStr(Txt.Place)]>>],
    [kind |-> "malformed", threw |-> FALSE, status |-> "OK", invalidKey |-> FALSE,
     candidates |-> <<[formatted_address |-> JStr(Txt.Fix), lat |-> JNull,
                       lng |-> JNull, place_id |-> JStr(Txt.Place)]>>],
    [kind |-> "ok", threw |-> FALSE, status |-> "OK", invalidKey |-> FALSE,
     candidates |-> <<[formatted_address |-> JStr(Txt.Found), lat |-> JNum(CenterQ[2]),
                       lng |-> JNum(CenterQ[1]), place_id |-> JNull]>>] }

\* findPlaceFromText after the fetch: throws, or returns null or the place
findPlaceFromText(resp) ==
  IF resp.threw THEN [throws |-> TRUE, code |-> "", place |-> JNull]
  ELSE IF resp.status # "OK" /\ resp.status # "ZERO_RESULTS"
       THEN [throws |-> TRUE,
             code |-> IF resp.invalidKey THEN "INVALID_API_KEY" ELSE "",
             place |-> JNull]
  ELSE IF Len(resp.candidates) = 0 THEN [throws |-> FALSE, code |-> "", place |-> JNull]
  ELSE LET c == resp.candidates[1]
       IN [throws |-> FALSE, code |-> "",
           place |-> [t |-> "obj",
                      formatted_address |-> Or(c.formatted_address, JNull),
                      lat |-> c.lat, lng |-> c.lng,
                      place_id |-> Or(c.place_id, JNull)]]

\* place?.f
PlaceField(place, f) == IF place.t = "obj" THEN place[f] ELSE JNull

\* What Place Details can answer.
DetailsResponses ==
  { [kind |-> "error", threw |-> TRUE, status |-> "", photo |-> JNull, rating |-> JNull],
    [kind |-> "error", threw |-> FALSE, status |-> "NOT_FOUND", photo |-> JNull, rating |-> JNull],
    [kind |-> "ok", threw |-> FALSE, status |-> "OK", photo |-> JStr(Txt.Photo), rating |-> JNum(450000)],
    [kind |-> "ok", threw |-> FALSE, status |-> "OK", photo |-> JNull, rating |-> JNull] }

\* getPlaceDetails after the fetch
getPlaceDetails(resp) ==
  IF resp.threw THEN [throws |-> TRUE, details |-> JNull]
  ELSE IF resp.status # "OK" THEN [throws |-> FALSE, details |-> JNull]
  ELSE [throws |-> FALSE,
        details |-> [t |-> "obj", photo_reference |-> Or(resp.photo, JNull),
                     rating |-> resp.rating]]

\* place?.formatted_address && place.lat != null && place.lng != null
PlaceUsable(place) ==
  /\ Truthy(PlaceField(place, "formatted_address"))
  /\ PlaceField(place, "lat") # JNull
  /\ PlaceField(place, "lng") # JNull

\* Mutation of PlacesCoord: the coordinate of the place is not taken over.
PlacesCoord_IgnoresPlace(place, f, old) == old

\* lines 203-208
PlacesCoord(place, f, old) == IF PlaceUsable(place) THEN place[f] ELSE old

\* line 209: if (!correctAddr || correctAddr !== place.formatted_address) updated++
PlacesUpdated(c, row, place) ==
  IF PlaceUsable(place)
     /\ (~Truthy(CorrectAddr(row)) \/ CorrectAddr(row) # place.formatted_address)
  THEN [c EXCEPT !.updated = @ + 1]
  ELSE c

\* lines 192-199: the catch around findPlaceFromText
PlacesCatch(c, code) ==
  [c EXCEPT !.failed = @ + 1,
            !.invalidKeyReported = @ \/ code = "INVALID_API_KEY"]

PlacesEntry(row, place, details) ==
  LET correctAddr == CorrectAddr(row)
      outAddress ==
        Or(correctAddr,
           Or(JStr(StripQuotes(Trim(StrOrEmpty(Or(row.address, row.location))))), JNull))
      fa == PlaceField(place, "formatted_address")
      finalAddress ==
        Or(JStr(Trim(StrOrEmpty(Or(Or(fa, correctAddr), outAddress)))), JNull)
      placeRating == IF details.t = "obj" THEN details.rating ELSE JNull
      photo == IF details.t = "obj" THEN Or(details.photo_reference, JNull) ELSE JNull
  IN [id |-> BarId(row), bar_name |-> JStr(BarName(row)),
      location |-> Or(Or(finalAddress, outAddress), JNull),
      lat |-> PlacesCoord(place, "lat", CoordNotNull(row.lat)),
      lng |-> PlacesCoord(place, "lng", CoordNotNull(row.lng)),
      price |-> IF row.price.t # "null" THEN ParseInt(StrOrEmpty(row.price)) ELSE JNull,
      dance_floor |-> DanceFloor(row),
      dance_notes |-> Or(row.dance_notes, JNull),
      last_updated |-> Or(row.last_updated, JNull),
      place_id |-> Or(PlaceField(place, "place_id"), JNull),
      photo_reference |-> Or(photo, JNull),
      vibes |-> JArr(deriveVibes(row, placeRating)),
      correct_address |-> IF Truthy(fa) THEN fa ELSE Undef]

\* Mutation of PlacesCatchTarget: a throw of an awaited call ends the run.
PlacesCatchTarget_Aborts(site) == "exit"

\* Where main() continues when the awaited call of a try block throws: the
\* catch of Find Place (lines 192-199) falls through to line 201, the catch
\* of the detail fetch (line 223) to line 226.
PlacesCatchTarget(site) == IF site = "findplace" THEN "found" ELSE "emit"

\* lines 185-199: the Find Place call and its catch
FindPlace ==
  /\ script = "places" /\ pc = "row"
  /\ \E resp \in FindResponses :
       LET r == findPlaceFromText(resp)
       IN /\ calls' = Append(calls, [api |-> "findplace", row |-> i,
                                     arg |-> BarName(rows[i]), kind |-> resp.kind])
          /\ loc' = [loc EXCEPT !.place = r.place]
          /\ counters' = IF r.throws THEN PlacesCatch(counters, r.code) ELSE counters
          /\ pc' = IF r.throws THEN PlacesCatchTarget("findplace") ELSE "sleep"
  /\ UNCHANGED <<script, env, rows, i, bars, coordCache, store, exitCode, vin, vout>>
  /\ paced' = FALSE

\* line 191: await sleep(350)
PlacesSleepFind ==
  /\ script = "places" /\ pc = "sleep"
  /\ pc' = "found"
  /\ UNCHANGED <<script, env, rows, i, bars, coordCache, loc, counters, calls,
                 store, exitCode, vin, vout>>
  /\ paced' = TRUE

\* lines 201-217 and 223: the counters, then the detail fetch and its catch
GetDetails ==
  /\ script = "places" /\ pc = "found"
  /\ Truthy(PlaceField(loc.place, "place_id"))
  /\ \E resp \in DetailsResponses :
       LET r == getPlaceDetails(resp)
       IN /\ calls' = Append(calls, [api |-> "details", row |-> i,
                                     arg |-> loc.place.place_id.s, kind |-> resp.kind])
          /\ loc' = [loc EXCEPT !.details = r.details]
          /\ pc' = IF r.throws THEN PlacesCatchTarget("details") ELSE "sleepDetails"
  /\ counters' = PlacesUpdated(counters, rows[i], loc.place)
  /\ UNCHANGED <<script, env, rows, i, bars, coordCache, store, exitCode, vin, vout>>
  /\ paced' = FALSE

\* line 218: await sleep(200)
PlacesSleepDetails ==
  /\ script = "places" /\ pc = "sleepDetails"
  /\ pc' = "emit"
  /\ UNCHANGED <<script, env, rows, i, bars, coordCache, loc, counters, calls,
                 store, exitCode, vin, vout>>
  /\ paced' = TRUE

\* lines 201-211 (when no detail fetch follows) and 219-253
PlacesEmit ==
  /\ script = "places"
  /\ \/ /\ pc = "emit"
        /\ counters' = counters
     \/ /\ pc = "found"
        /\ ~Truthy(PlaceField(loc.place, "place_id"))
        /\ counters' = PlacesUpdated(counters, rows[i], loc.place)
  /\ bars' = Append(bars, PlacesEntry(rows[i], loc.place, loc.details))
  /\ i' = i + 1
  /\ pc' = NextRow
  /\ loc' = NoLoc
  /\ UNCHANGED <<script, env, rows, coordCache, calls, store, exitCode, vin, vout,
                 paced>>

\* ------------------------------------------- categorize-bars-by-mood.js
MOODS ==
  <<"first_date", "third_date", "chill_date", "party_night", "chill_hangout",
    "group_friends", "cheap_night_out">>

\* MOODS.includes(m)
MoodsIncludes(m) == \E k \in 1..Len(MOODS) : MOODS[k] = m

\* The bars of bars.json as the script reads them.
MoodBarPool ==
  { [bar_name |-> JStr(Txt.Kvarnen), place_id |-> JStr(Txt.Place), moods |-> Undef],
    [bar_name |-> JStr(Txt.Kvarnen), place_id |-> JNull, moods |-> JArr(<<"chill_date">>)],
    [bar_name |-> JStr(Txt.Kvarnen), place_id |-> JStr(Txt.Place),
     moods |-> JArr(<<"party_night", "romantic">>)] }

\* What Place Details (with reviews) can answer: the request throws, or it
\* returns (null for a status other than OK, else the review texts, which
\* only feed the prompt).
ReviewResponses ==
  { [kind |-> "error", threw |-> TRUE, status |-> ""],
    [kind |-> "ok", threw |-> FALSE, status |-> "OK"] }

\* What the chat completion can answer: the request throws, the status is
\* not ok, the content holds no [...] match, the match is not JSON, or the
\* match is a JSON array.
ClassifyResponses ==
  { [kind |-> "error", threw |-> TRUE, ok |-> FALSE, match |-> FALSE, json |-> FALSE, arr |-> <<>>],
    [kind |-> "error", threw |-> FALSE, ok |-> FALSE, match |-> FALSE, json |-> FALSE, arr |-> <<>>],
    [kind |-> "malformed", threw |-> FALSE, ok |-> TRUE, match |-> FALSE, json |-> FALSE, arr |-> <<>>],
    [kind |-> "malformed", threw |-> FALSE, ok |-> TRUE, match |-> TRUE, json |-> FALSE, arr |-> <<>>] }
  \cup
  { [kind |-> "ok", threw |-> FALSE, ok |-> TRUE, match |-> TRUE, json |-> TRUE, arr |-> a] :
      a \in { <<>>, <<"romantic">>, <<"cozy", "first_date">>,
              <<"third_date", "third_date">>, <<"party_night", "group_friends">> } }

\* Mutation of FilterMoods: the classifier's list is taken as it is.
FilterMoods_KeepsAll(arr) == arr

\* arr.filter((m) => MOODS.includes(m))
FilterMoods(arr) ==
  LET f[a \in Str] ==
        IF a = <<>> THEN <<>>
        ELSE IF MoodsIncludes(Head(a)) THEN <<Head(a)>> \o f[Tail(a)]
        ELSE f[Tail(a)]
  IN f[arr]

\* classifyBarWithOpenAI after the fetch: throws, or returns the labels
classifyBarWithOpenAI(resp) ==
  IF resp.threw \/ ~resp.ok THEN [throws |-> TRUE, moods |-> <<>>]
  ELSE IF ~resp.match \/ ~resp.json THEN [throws |-> FALSE, moods |-> <<>>]
  ELSE [throws |-> FALSE, moods |-> FilterMoods(resp.arr)]

\* Mutation of AssignMoods: the classifier's list always replaces the old one.
AssignMoods_Overwrites(bar, moods) == [bar EXCEPT !.moods = JArr(moods)]

\* line 193: bar.moods = moods.length ? moods : (bar.moods || [])
AssignMoods(bar, moods) ==
  [bar EXCEPT !.moods = IF Len(moods) > 0 THEN JArr(moods) ELSE Or(bar.moods, JArr(<<>>))]

\* Mutation of CatchMoods: the record is built anew from its name.
CatchMoods_Rebuilds(bar) ==
  [bar_name |-> bar.bar_name, moods |-> Or(bar.moods, JArr(<<>>))]

\* line 197: bar.moods = bar.moods || []
CatchMoods(bar) == [bar EXCEPT !.moods = Or(bar.moods, JArr(<<>>))]

\* lines 162-172: the review fetch and its catch
FetchReviews ==
  /\ script = "moods" /\ pc = "row"
  /\ Truthy(rows[i].place_id)
  /\ \E resp \in ReviewResponses :
       /\ calls' = Append(calls, [api |-> "details", row |-> i,
                                  arg |-> rows[i].place_id.s, kind |-> resp.kind])
       /\ pc' = IF resp.threw THEN "classify" ELSE "sleep"
  /\ UNCHANGED <<script, env, rows, i, bars, coordCache, loc, counters, store,
                 exitCode, vin, vout>>
  /\ paced' = FALSE

\* line 165: await sleep(350)
MoodsSleepReviews ==
  /\ script = "moods" /\ pc = "sleep"
  /\ pc' = "classify"
  /\ UNCHANGED <<script, env, rows, i, bars, coordCache, loc, counters, calls,
                 store, exitCode, vin, vout>>
  /\ paced' = TRUE

\* lines 174-191 and 195-199: the classification call and its catch
Classify ==
  /\ script = "moods"
  /\ pc = "classify" \/ (pc = "row" /\ ~Truthy(rows[i].place_id))
  /\ \E resp \in ClassifyResponses :
       LET r == classifyBarWithOpenAI(resp)
       IN /\ calls' = Append(calls, [api |-> "openai", row |-> i, arg |-> resp.arr,
                                     kind |-> resp.kind])
          /\ IF r.throws
             THEN /\ bars' = Append(bars, CatchMoods(rows[i]))
                  /\ counters' = [counters EXCEPT !.failed = @ + 1]
                  /\ i' = i + 1
                  /\ pc' = NextRow
                  /\ loc' = loc
             ELSE /\ loc' = [loc EXCEPT !.moods = r.moods]
                  /\ pc' = "sleepClassify"
                  /\ UNCHANGED <<bars, counters, i>>
  /\ UNCHANGED <<script, env, rows, coordCache, store, exitCode, vin, vout>>
  /\ paced' = FALSE

\* lines 192-194: await sleep(300), then the assignment
MoodsAssign ==
  /\ script = "moods" /\ pc = "sleepClassify"
  /\ bars' = Append(bars, AssignMoods(rows[i], loc.moods))
  /\ counters' = [counters EXCEPT !.done = @ + 1]
  /\ i' = i + 1
  /\ pc' = NextRow
  /\ loc' = NoLoc
  /\ UNCHANGED <<script, env, rows, coordCache, calls, store, exitCode, vin, vout>>
  /\ paced' = TRUE

\* ------------------------------------------------------- start and finish
\* the credentials a script refuses to run without
RequiredKeys(sc) ==
  CASE sc = "geocode" -> {}
    [] sc = "mapbox" -> {"MAPBOX_TOKEN"}
    [] sc = "places" -> {"GOOGLE_PLACES_API_KEY"}
    [] sc = "moods" -> {"GOOGLE_PLACES_API_KEY", "OPENAI_API_KEY"}

\* Mutation of Fatal: the input file is not looked at.
Fatal_IgnoresInput(sc, e) == ~(RequiredKeys(sc) \subseteq e.keys)

\* the checks at the top of main(): credential, input file, parse
Fatal(sc, e) == ~(RequiredKeys(sc) \subseteq e.keys) \/ e.input # "ok"

\* main() up to the loop: process.exit(1), or a throw that main().catch
\* turns into process.exit(1), on a failed precondition
Start ==
  /\ pc = "start"
  /\ IF Fatal(script, env)
     THEN /\ pc' = "exit"
          /\ exitCode' = 1
          /\ i' = i
     ELSE /\ pc' = IF Len(rows) = 0 THEN "write" ELSE "row"
          /\ exitCode' = exitCode
          /\ i' = 1
  /\ UNCHANGED <<script, env, rows, bars, coordCache, loc, counters, calls,
                 store, vin, vout, paced>>

\* Mutation of WriteJson: the records are added to what the file holds.
WriteJson_Appends(st, bs) == [st EXCEPT !.writes = @ + 1, !.json = @ \o ToJson(bs)]

\* fs.writeFileSync(OUT_PATH, JSON.stringify(bars, null, 2), 'utf8')
WriteJson(st, bs) == [st EXCEPT !.writes = @ + 1, !.json = ToJson(bs)]

\* const escape = (v) => ... of the Places script's CSV
PlacesEscape(val) ==
  LET f[s \in Str] == IF Includes(s, ",") \/ Includes(s, QUOTE) THEN Quoted(s) ELSE s
  IN IF IsNullish(val) THEN <<>> ELSE f[ToStr(val)]

\* v ?? ''
OrEmpty(v) == IF IsNullish(v) THEN JStr(<<>>) ELSE v

\* one element of csvRows, as cells
PlacesCsvRow(b) ==
  << PlacesEscape(b.id), PlacesEscape(b.bar_name),
     PlacesEscape(Or(b.location, JStr(<<>>))),
     PlacesEscape(Or(Field(b, "correct_address"), JStr(<<>>))),
     PlacesEscape(OrEmpty(b.lat)), PlacesEscape(OrEmpty(b.lng)),
     PlacesEscape(OrEmpty(b.price)), <<>>,
     PlacesEscape(OrEmpty(b.dance_floor)), PlacesEscape(OrEmpty(b.dance_notes)),
     PlacesEscape(OrEmpty(b.last_updated)) >>

\* [csvHeader, ...csvRows].join('\n')
PlacesCsvText(bs) ==
  Join(<<Join(CsvHeader, <<",">>)>>
         \o [k \in 1..Len(bs) |-> Join(PlacesCsvRow(bs[k]), <<",">>)],
       <<NL>>)

\* fs.writeFileSync(OUT_CSV, ...) of the Places script
WriteCsv(st, bs) == [st EXCEPT !.csvWrites = @ + 1, !.csv = PlacesCsvText(bs)]

\* the tail of main() after the loop
Write ==
  /\ pc = "write"
  /\ store' = IF script = "places" THEN WriteCsv(WriteJson(store, bars), bars)
               ELSE WriteJson(store, bars)
  /\ pc' = "done"
  /\ exitCode' = 0
  /\ UNCHANGED <<script, env, rows, i, bars, coordCache, loc, counters, calls,
                 vin, vout, paced>>

\* ---------------------------------------------------------- specification
RECURSIVE SeqsUpTo(_, _)
SeqsUpTo(S, n) ==
  IF n = 0 THEN {<<>>}
  ELSE LET shorter == SeqsUpTo(S, n - 1)
       IN shorter \cup {Append(q, x) : q \in {r \in shorter : Len(r) = n - 1}, x \in S}

Scripts == {"geocode", "mapbox", "places", "moods"}

RowPool(sc) ==
  CASE sc = "geocode" -> CsvRowPool \cup JsonRowPool
    [] sc = "mapbox" -> CsvRowPool
    [] sc = "places" -> PlacesRowPool
    [] sc = "moods" -> MoodBarPool

\* the output files before the run: what an earlier run left, and for the
\* mood script, which rewrites the file it reads, that file
PrevStore(sc, e, rs) ==
  [writes |-> 0, csvWrites |-> 0, csv |-> <<>>,
   json |-> IF sc = "moods" /\ e.input = "ok" THEN ToJson(rs)
            ELSE <<[id |-> JStr(Txt.Kvarnen)]>>]

Init ==
  /\ script \in Scripts
  /\ env \in [input : {"ok", "missing", "unparsable"}, keys : SUBSET RequiredKeys(script)]
  /\ rows \in (IF Fatal(script, env) THEN {<<>>} ELSE SeqsUpTo(RowPool(script), MaxRows))
  /\ pc = "start"
  /\ i = 0
  /\ bars = <<>>
  /\ coordCache = <<>>
  /\ loc = NoLoc
  /\ counters = [updated |-> 0, failed |-> 0, done |-> 0, invalidKeyReported |-> FALSE]
  /\ calls = <<>>
  /\ store = PrevStore(script, env, rows)
  /\ exitCode = -1
  /\ vin = <<>>
  /\ vout = <<>>
  /\ paced = TRUE

Next ==
  \/ Start
  \/ PhotonLookup
  \/ PhotonSleep
  \/ PhotonEmit
  \/ MapboxLookup
  \/ MapboxSleep
  \/ MapboxEmit
  \/ FindPlace
  \/ PlacesSleepFind
  \/ GetDetails
  \/ PlacesSleepDetails
  \/ PlacesEmit
  \/ FetchReviews
  \/ MoodsSleepReviews
  \/ Classify
  \/ MoodsAssign
  \/ Write

Spec == Init /\ [][Next]_vars

\* Every awaited fetch settles and every timer fires, so main() always takes
\* its next step.
FairSpec == Spec /\ WF_vars(Next)

\* ------------------------------------------------- deriveVibes on its own
MaxVibesCalls == 2

VibesDancePool ==
  { JNull, JStr(Txt.Empty), JStr(Txt.Yes), JStr(Txt.YesUpper), JStr(Txt.YesMixed),
    JStr(Txt.YesPadded), JStr(Txt.No), JStr(Txt.unknown) }

VibesRatingPool ==
  { JNull, JNaN, JNum(0), JNum(410000), JNum(419999), JNum(420000), JNum(420001),
    JNum(500000) }

VibesInit ==
  /\ script = "vibes"
  /\ env = [input |-> "ok", keys |-> {}]
  /\ rows = <<>>
  /\ pc = "vibes"
  /\ i = 0
  /\ bars = <<>>
  /\ coordCache = <<>>
  /\ loc = NoLoc
  /\ counters = [updated |-> 0, failed |-> 0, done |-> 0, invalidKeyReported |-> FALSE]
  /\ calls = <<>>
  /\ store = PrevStore(script, env, rows)
  /\ exitCode = -1
  /\ vin \in [row : {[BaseRow EXCEPT !.dance_floor = d] : d \in VibesDancePool},
              rating : VibesRatingPool]
  /\ vout = <<>>
  /\ paced = TRUE

\* one call deriveVibes(row, rating)
VibesCall ==
  /\ pc = "vibes"
  /\ Len(vout) < MaxVibesCalls
  /\ vout' = Append(vout, deriveVibes(vin.row, vin.rating))
  /\ UNCHANGED <<script, env, rows, pc, i, bars, coordCache, loc, counters, calls,
                 store, exitCode, vin, paced>>

SpecVibes == VibesInit /\ [][VibesCall]_vars

\* ------------------------------------------- the CSV functions on their own
MaxCsvCalls == 2


\* values of a text column: plain, empty, with a comma, with quotes, with a
\* line break, with a comma and quotes
CsvValuePool == {Txt.Raw, Txt.Empty, Txt.Comma, Txt.Quote, Txt.Newline, Txt.CommaQuote}

\* a bar whose name is a and whose dance notes are b
CsvBar(a, b) ==
  [id |-> JStr(Txt.Bar1), bar_name |-> JStr(a), location |-> JStr(Txt.Fix),
   correct_address |-> JStr(Txt.Fix), lat |-> JNum(CenterP[2]), lng |-> JNum(CenterP[1]),
   price |-> JNum(8500000), dance_floor |-> JStr(Txt.Yes), dance_notes |-> JStr(b),
   last_updated |-> JNull]

CsvInit ==
  /\ script = "csv"
  /\ env = [input |-> "ok", keys |-> {}]
  /\ rows = <<>>
  /\ pc = "csv"
  /\ i = 0
  /\ bars = <<>>
  /\ coordCache = <<>>
  /\ loc = NoLoc
  /\ counters = [updated |-> 0, failed |-> 0, done |-> 0, invalidKeyReported |-> FALSE]
  /\ calls = <<>>
  /\ store = PrevStore(script, env, rows)
  /\ exitCode = -1
  /\ vin \in [a : CsvValuePool, b : CsvValuePool]
  /\ vout = <<>>
  /\ paced = TRUE

\* a value as a spreadsheet saves it: in quotes, every quote doubled, when it
\* holds a comma, a quote or a line break
SheetCell(s) ==
  IF Includes(s, ",") \/ Includes(s, QUOTE) \/ Includes(s, NL) \/ Includes(s, CR)
  THEN Quoted(s) ELSE s

\* bars-info.csv as the user saves it: the header and one bar whose name is
\* a and whose correct_address is b
UserCsv(a, b) ==
  Join(CsvHeader, <<",">>) \o <<NL>>
    \o Join(<< Txt.Bar1, SheetCell(a), Txt.Raw, SheetCell(b), Txt.DefLat, Txt.DefLng,
               <<"8", "5">>, <<>>, Txt.Yes, <<>>, <<>> >>, <<",">>)

\* parseCSV on the user's file
ParseCall ==
  /\ pc = "csv"
  /\ Len(vout) < MaxCsvCalls
  /\ vout' = Append(vout, [op |-> "parse", out |-> parseCSV(UserCsv(vin.a, vin.b))])
  /\ UNCHANGED <<script, env, rows, pc, i, bars, coordCache, loc, counters, calls,
                 store, exitCode, vin, paced>>

\* the bars the geocode script builds from the rows of a CSV text when no
\* lookup changes a coordinate
BarsFromCsv(text) ==
  LET Entries(rs) ==
        [k \in 1..Len(rs) |->
           CHOOSE e \in {PhotonEntry(row, CoordNotNull(row.lat), CoordNotNull(row.lng)) :
                           row \in {CsvRecord(rs[k])}} : TRUE]
  IN CHOOSE r \in {Entries(rs) : rs \in {parseCSV(text)}} : TRUE

\* the geocode script on the user's file, the generator on the bars.json it
\* wrote, and the generated file parsed again
RoundTripCall ==
  /\ pc = "csv"
  /\ Len(vout) < MaxCsvCalls
  /\ vout' = Append(vout,
        [op |-> "roundtrip",
         out |-> parseCSV(generateBarsInfo(ToJson(BarsFromCsv(UserCsv(vin.a, vin.b)))))])
  /\ UNCHANGED <<script, env, rows, pc, i, bars, coordCache, loc, counters, calls,
                 store, exitCode, vin, paced>>

\* one run of generate-bars-info.js on a bars.json holding the bar
GenerateCall ==
  /\ pc = "csv"
  /\ Len(vout) < MaxCsvCalls
  /\ vout' = Append(vout, [op |-> "generate",
                           out |-> generateBarsInfo(ToJson(<<CsvBar(vin.a, vin.b)>>))])
  /\ UNCHANGED <<script, env, rows, pc, i, bars, coordCache, loc, counters, calls,
                 store, exitCode, vin, paced>>

\* the CSV the Places script writes for the bar
PlacesCsvCall ==
  /\ pc = "csv"
  /\ Len(vout) < MaxCsvCalls
  /\ vout' = Append(vout, [op |-> "placesCsv",
                           out |-> PlacesCsvText(<<CsvBar(vin.a, vin.b)>>)])
  /\ UNCHANGED <<script, env, rows, pc, i, bars, coordCache, loc, counters, calls,
                 store, exitCode, vin, paced>>

CsvNext ==
  \/ ParseCall
  \/ RoundTripCall
  \/ GenerateCall
  \/ PlacesCsvCall

SpecCsv == CsvInit /\ [][CsvNext]_vars

\* ---------------------------------------- credential lookup on its own
MaxCredCalls == 2

\* Where a credential can be set: proc is process.env[name] ('' when it is
\* not set), file the value the .env file holds for the name and config the
\* one env-config.js holds ('' when the file or the line is missing).
\* function getApiKey() of the Places script
getApiKey(e) ==
  IF e.proc # <<>> THEN Trim(e.proc)
  ELSE IF e.file # <<>> THEN Trim(e.file)
  ELSE <<>>

\* function getEnvKey(name) of the mood script
getEnvKey(e) ==
  IF e.proc # <<>> THEN Trim(e.proc)
  ELSE IF e.file # <<>> THEN Trim(e.file)
  ELSE <<>>

\* function getToken() of the geocode script: .env, then env-config.js,
\* then process.env.MAPBOX_TOKEN || ''
getToken(e) ==
  IF e.file # <<>> THEN e.file
  ELSE IF e.config # <<>> THEN e.config
  ELSE e.proc

CredInit ==
  /\ script = "cred"
  /\ env = [input |-> "ok", keys |-> {}]
  /\ rows = <<>>
  /\ pc = "cred"
  /\ i = 0
  /\ bars = <<>>
  /\ coordCache = <<>>
  /\ loc = NoLoc
  /\ counters = [updated |-> 0, failed |-> 0, done |-> 0, invalidKeyReported |-> FALSE]
  /\ calls = <<>>
  /\ store = PrevStore(script, env, rows)
  /\ exitCode = -1
  /\ vin \in [proc : {<<>>, Txt.EnvKey, Txt.EnvKeyPadded},
              file : {<<>>, Txt.FileKey},
              config : {<<>>, Txt.ConfigKey}]
  /\ vout = <<>>
  /\ paced = TRUE

\* one call of a script's credential function
CredCall ==
  /\ pc = "cred"
  /\ Len(vout) < MaxCredCalls
  /\ \E fn \in {"getApiKey", "getEnvKey", "getToken"} :
       vout' = Append(vout,
                 [fn |-> fn,
                  out |-> CASE fn = "getApiKey" -> getApiKey(vin)
                            [] fn = "getEnvKey" -> getEnvKey(vin)
                            [] fn = "getToken" -> getToken(vin)])
  /\ UNCHANGED <<script, env, rows, pc, i, bars, coordCache, loc, counters, calls,
                 store, exitCode, vin, paced>>

SpecCred == CredInit /\ [][CredCall]_vars

\* ------------------------------------- server.js, the static file handler
MaxRequests == 2

\* path.resolve(__dirname): the directory server.js is in, here /r
ServerRoot == <<"/", "r">>

\* the segments of a path, '.' and '..' resolved as path.join and
\* path.resolve do ('..' at the top stays at the top)
Segments(p) ==
  LET raw == SelectSeq(Pieces(p, {k \in 1..Len(p) : p[k] = "/"}), LAMBDA s : s # <<>>)
      norm[k \in 0..Len(raw)] ==
        IF k = 0 THEN <<>>
        ELSE IF raw[k] = <<".">> THEN norm[k - 1]
        ELSE IF raw[k] = <<".", ".">>
             THEN (IF norm[k - 1] = <<>> THEN <<>>
                   ELSE SubSeq(norm[k - 1], 1, Len(norm[k - 1]) - 1))
        ELSE Append(norm[k - 1], raw[k])
  IN norm[Len(raw)]

\* path.join(a, b), as the string of the normalised path
pathJoin(a, b) ==
  LET segs == Segments(a \o <<"/">> \o b)
  IN IF segs = <<>> THEN <<"/">>
     ELSE Join([k \in 1..Len(segs) |-> <<"/">> \o segs[k]], <<>>)

\* path.extname(p) is not empty: the last segment has a dot after its
\* first character
HasExt(p) ==
  LET segs == Segments(p)
  IN /\ segs # <<>>
     /\ \E k \in 2..Len(segs[Len(segs)]) : segs[Len(segs)][k] = "."

\* lines 155-171: what the handler does with a request that is not the
\* chat API: the path it resolves, the status it answers, and the file it
\* hands to fs.readFile (none for 403); exists says whether the read finds
\* the file
ServeStatic(url, exists) ==
  LET query == {k \in 1..Len(url) : url[k] = "?"}
      rel == IF url = <<"/">> THEN Txt.IndexHtml
             ELSE IF query = {} THEN url
             ELSE Pieces(url, query)[1]
      joined == pathJoin(ServerRoot, rel)
      filePath == IF HasExt(joined) THEN joined ELSE pathJoin(joined, Txt.IndexHtml)
      allowed == /\ Len(filePath) >= Len(ServerRoot)
                 /\ SubSeq(filePath, 1, Len(ServerRoot)) = ServerRoot
  IN [url |-> url, path |-> filePath,
      status |-> IF ~allowed THEN 403 ELSE IF exists THEN 200 ELSE 404,
      read |-> allowed]

ServerInit ==
  /\ script = "server"
  /\ env = [input |-> "ok", keys |-> {}]
  /\ rows = <<>>
  /\ pc = "listen"
  /\ i = 0
  /\ bars = <<>>
  /\ coordCache = <<>>
  /\ loc = NoLoc
  /\ counters = [updated |-> 0, failed |-> 0, done |-> 0, invalidKeyReported |-> FALSE]
  /\ calls = <<>>
  /\ store = PrevStore(script, env, rows)
  /\ exitCode = -1
  /\ vin = <<>>
  /\ vout = <<>>
  /\ paced = TRUE

\* one request served by the static handler
Request ==
  /\ pc = "listen"
  /\ Len(vout) < MaxRequests
  /\ \E url \in {Txt.UrlRoot, Txt.UrlFile, Txt.UrlQuery, Txt.UrlDir, Txt.UrlDotDot,
                   Txt.UrlAbove, Txt.UrlBack, Txt.UrlSibling},
        exists \in BOOLEAN :
       vout' = Append(vout, ServeStatic(url, exists))
  /\ UNCHANGED <<script, env, rows, pc, i, bars, coordCache, loc, counters, calls,
                 store, exitCode, vin, paced>>

SpecServer == ServerInit /\ [][Request]_vars

\* ------------------------------------------------------------------ claims
GeoScripts == {"geocode", "mapbox"}

\* the address a script resolves for a row: the Mapbox variant reads
\* row.location only, the others the corrected or the raw address
ResolvedAddress(sc, row) ==
  IF sc = "mapbox" THEN MapboxLocation(row) ELSE PhotonLocation(row)

\* the coordinate a script reads from a row
InputCoord(sc, v) == IF sc = "mapbox" THEN CoordTruthy(v) ELSE CoordNotNull(v)

LookupScripts == {"geocode", "mapbox", "places"}
LookupApis == {"photon", "mapbox", "findplace"}

CallsForRow(j) == {k \in 1..Len(calls) : calls[k].row = j}

\* C1: within one run of the geocoding script, no two remote geocoding calls
\* carry the same address (compared after trimming and collapsing
\* whitespace), whatever the outcome of the first call was.
C1_OneCallPerAddress ==
  script \in GeoScripts =>
    \A a, b \in 1..Len(calls) :
      addressKey(calls[a].arg) = addressKey(calls[b].arg) => a = b

\* C2: the address handed to the geocoder for a row is the row's
\* correct_address (trimmed, quotes stripped) when that is non-empty, and the
\* row's location/address only otherwise.
C2_CorrectedAddressGeocoded ==
  script \in GeoScripts =>
    \A k \in 1..Len(calls) :
      LET row == rows[calls[k].row]
          corrected == StripQuotes(Trim(StrOrEmpty(row.correct_address)))
          raw == StripQuotes(Trim(StrOrEmpty(Or(row.location, row.address))))
      IN calls[k].arg = (IF corrected # <<>> THEN corrected ELSE raw)

\* an address that is absent, empty after trimming, or the placeholder
PlaceholderAddress(a) == Trim(a) = <<>> \/ a = Txt.Null

\* C3: a row whose resolved address is absent, empty after trimming or the
\* placeholder "null" gets no remote geocoding call, and is still written.
C3_NoLookupForPlaceholder ==
  script \in GeoScripts =>
    \A j \in 1..Len(rows) :
      PlaceholderAddress(ResolvedAddress(script, rows[j])) =>
        /\ CallsForRow(j) = {}
        /\ j < i => Len(bars) >= j
        /\ pc = "done" => Len(store.json) = Len(rows)

C3_Witness ==
  /\ script \in GeoScripts /\ pc = "done" /\ Len(calls) > 0
  /\ \E j \in 1..Len(rows) :
       /\ ResolvedAddress(script, rows[j]) = Txt.Null
       /\ store.json[j].location = JStr(Txt.Null)

\* the outcomes of a remote call that count as a failed lookup
FailedKinds == {"error", "malformed", "zero"}

FatalPrecondition ==
  \/ env.input \in {"missing", "unparsable"}
  \/ script = "mapbox" /\ "MAPBOX_TOKEN" \notin env.keys
  \/ script \in {"places", "moods"} /\ "GOOGLE_PLACES_API_KEY" \notin env.keys
  \/ script = "moods" /\ "OPENAI_API_KEY" \notin env.keys

\* C5: whatever remote calls fail for whatever records, a run that passed its
\* preconditions goes on to process every row, reaches the final write and
\* writes one record for every input row.
C5_RunSurvivesRecordFailures ==
  [](~FatalPrecondition =>
       <>(/\ pc = "done"
          /\ store.writes = 1
          /\ Len(bars) = Len(rows)
          /\ Len(store.json) = Len(rows)))

C5_Witness ==
  /\ pc = "done" /\ Len(rows) > 1 /\ Len(store.json) = Len(rows)
  /\ \E k \in CallsForRow(1) : calls[k].kind = "error"
  /\ CallsForRow(2) # {}

\* C6: when a fatal precondition fails the script exits with status 1 and
\* has processed no row, issued no remote call and written no output file.
C6_FatalExitsClean ==
  /\ (FatalPrecondition /\ pc # "start") => (pc = "exit" /\ exitCode = 1)
  /\ pc = "exit" =>
       /\ bars = <<>>
       /\ calls = <<>>
       /\ store.writes = 0 /\ store.csvWrites = 0
       /\ store = PrevStore(script, env, rows)

C6_Witness ==
  /\ pc = "exit" /\ exitCode = 1 /\ env.input = "unparsable"
  /\ RequiredKeys(script) \subseteq env.keys

\* the closed vocabulary of the specification
MoodVocabulary ==
  {"first_date", "third_date", "chill_date", "party_night", "chill_hangout",
   "group_friends", "cheap_night_out"}

Labels(v) == IF v.t = "arr" THEN {v.a[k] : k \in 1..Len(v.a)} ELSE {}

OpenAiCalls(j) == {k \in CallsForRow(j) : calls[k].api = "openai"}

\* C7: every label the classification step puts on a record is in the closed
\* seven-label vocabulary: the list the classifier call returns holds only
\* vocabulary labels, and a label on a processed record is a vocabulary
\* label or was on that record before the step.
C7_OnlyVocabularyStored ==
  script = "moods" =>
    /\ \A k \in 1..Len(loc.moods) : loc.moods[k] \in MoodVocabulary
    /\ \A j \in 1..Len(bars) :
         \A label \in Labels(bars[j].moods) :
           label \in MoodVocabulary \/ label \in Labels(rows[j].moods)
    /\ pc = "done" =>
         \A j \in 1..Len(rows) :
           \A label \in Labels(store.json[j].moods) :
             label \in MoodVocabulary \/ label \in Labels(rows[j].moods)

C7_Witness ==
  /\ script = "moods" /\ pc = "done"
  /\ \E j \in 1..Len(rows) :
       /\ \E k \in OpenAiCalls(j) : calls[k].arg = <<"cozy", "first_date">>
       /\ store.json[j].moods = JArr(<<"first_date">>)

\* the classification of record j gave nothing to store: an error, no
\* label, or only labels outside the vocabulary
NothingClassified(j) ==
  \E k \in OpenAiCalls(j) :
    \/ calls[k].kind \in {"error", "malformed"}
    \/ \A m \in 1..Len(calls[k].arg) : calls[k].arg[m] \notin MoodVocabulary

\* C8: as stated, after a classification that gave nothing to store, the
\* record's moods value is the same as before the step.
C8_MoodsUnchanged ==
  script = "moods" =>
    \A j \in 1..Len(bars) : NothingClassified(j) => bars[j].moods = rows[j].moods

\* C8: amended, after a classification that gave nothing to store, a record
\* that had a moods list keeps exactly that list, and a record that had none
\* gets the empty list.
C8_MoodsKeptOrEmpty ==
  script = "moods" =>
    \A j \in 1..Len(bars) :
      NothingClassified(j) =>
        /\ bars[j].moods =
             (IF rows[j].moods.t = "arr" THEN rows[j].moods ELSE JArr(<<>>))
        /\ pc = "done" => store.json[j].moods = bars[j].moods

C8_Witness ==
  /\ script = "moods" /\ pc = "done"
  /\ \E j \in 1..Len(rows) :
       /\ NothingClassified(j)
       /\ rows[j].moods = JArr(<<"chill_date">>)
       /\ store.json[j].moods = JArr(<<"chill_date">>)

NoDuplicates(q) == \A a, b \in 1..Len(q) : q[a] = q[b] => a = b

\* C9: the moods list of a processed record holds no label twice, and
\* applying the same classifier answer to the record again leaves it as is.
C9_MoodsIsSet ==
  script = "moods" =>
    \A j \in 1..Len(bars) :
      /\ bars[j].moods.t = "arr" => NoDuplicates(bars[j].moods.a)
      /\ \A k \in OpenAiCalls(j) :
           calls[k].kind = "ok" =>
             AssignMoods(bars[j], FilterMoods(calls[k].arg)) = bars[j]

\* dance_floor is "yes" in any letter case
IsYes(v) ==
  /\ v.t = "str" /\ Len(v.s) = 3
  /\ v.s[1] \in {"y", "Y"} /\ v.s[2] \in {"e", "E"} /\ v.s[3] \in {"s", "S"}

ExpectedVibes(row, rating) ==
  LET dance == IsYes(row.dance_floor)
      high == rating.t = "num" /\ rating.n >= 420000
  IN (IF dance THEN {"party", "girls-night"} ELSE {})
       \cup (IF high THEN {"dating", "chill"} ELSE {})
       \cup (IF ~dance /\ ~high THEN {"chill"} ELSE {})

\* C10: deriveVibes returns, without duplicates, party and girls-night when
\* dance_floor is yes, dating and chill when the rating is at least 4.2,
\* chill alone when neither holds; a second call returns the same.
C10_DeriveVibesRules ==
  script = "vibes" =>
    \A k \in 1..Len(vout) :
      /\ {vout[k][m] : m \in 1..Len(vout[k])} = ExpectedVibes(vin.row, vin.rating)
      /\ NoDuplicates(vout[k])
      /\ vout[k] = vout[1]

C10_Witness ==
  /\ script = "vibes" /\ Len(vout) = 2
  /\ vin.row.dance_floor = JStr(Txt.YesMixed) /\ vin.rating = JNum(420000)
  /\ vout[2] = <<"party", "girls-night", "dating", "chill">>

\* a value as a CSV cell: quoted, with every quote doubled, when it holds a
\* comma, a quote or a line break
ExpectedCell(s) ==
  IF \E k \in 1..Len(s) : s[k] \in {",", QUOTE, NL, CR}
  THEN <<QUOTE>> \o DoubleQuotes(s) \o <<QUOTE>>
  ELSE s

\* the export of the harness bar: the byte-order mark, the header, one row
ExpectedCsv(a, b) ==
  <<BOM>> \o Join(CsvHeader, <<",">>) \o <<NL>>
    \o Join(<< Txt.Bar1, ExpectedCell(a), Txt.Fix, Txt.Fix,
               <<"5", "9", ".", "3", "1", "7">>, <<"1", "8", ".", "0", "7", "1">>,
               <<"8", "5">>, <<>>, Txt.Yes, ExpectedCell(b), <<>> >>, <<",">>)

\* C11: each CSV export (the generator's and the Places script's) starts
\* with the byte-order mark and holds every value that has a comma, a quote
\* or a line break in double quotes with each quote doubled.
C11_CsvExportEscaped ==
  script = "csv" =>
    \A k \in 1..Len(vout) :
      vout[k].op \in {"generate", "placesCsv"} => vout[k].out = ExpectedCsv(vin.a, vin.b)

\* C12: parseCSV returns, for the one row of a well-formed CSV text, the
\* field values that were written: one row, the name and the corrected
\* address as entered (with their commas, line breaks and quotes), the other
\* columns as they stand in the file.
C12_ParseCsvReturnsValues ==
  script = "csv" =>
    \A k \in 1..Len(vout) :
      vout[k].op = "parse" =>
        /\ Len(vout[k].out) = 1
        /\ vout[k].out[1][ColumnChars.bar_name] = vin.a
        /\ vout[k].out[1][ColumnChars.correct_address] = vin.b
        /\ vout[k].out[1][ColumnChars.id] = Txt.Bar1
        /\ vout[k].out[1][ColumnChars.dance_floor] = Txt.Yes

\* C13: the correct_address a user entered for a bar in bars-info.csv is the
\* value of that bar's correct_address column after the geocode script and
\* then the CSV generator have run and the generated file is parsed.
C13_CorrectAddressRoundTrip ==
  script = "csv" =>
    \A k \in 1..Len(vout) :
      vout[k].op = "roundtrip" =>
        \E r \in 1..Len(vout[k].out) :
          /\ vout[k].out[r][ColumnChars.id] = Txt.Bar1
          /\ vout[k].out[r][ColumnChars.correct_address] = vin.b

\* row[k] for the first key of keys that the row carries, else undefined
FirstOf(row, keys) ==
  IF \E k \in 1..Len(keys) : row[keys[k]] # JNull
  THEN row[keys[CHOOSE k \in 1..Len(keys) :
                  /\ row[keys[k]] # JNull
                  /\ \A m \in 1..(k - 1) : row[keys[m]] = JNull]]
  ELSE JNull

\* coordinates that only a lookup yields
LookupCoords == {JNum(CenterP[1]), JNum(CenterP[2]), JNum(CenterQ[1]), JNum(CenterQ[2])}

\* C14: in the store a geocode or Places run has written, every record
\* carries under the canonical key the value its row holds under any of the
\* accepted spellings: the name (bar_name, name), the price (price,
\* cheapest_beer_sek), the dance floor (dance_floor, danceFloor), the dance
\* notes (dance_notes, danceNotes) and, unless a lookup replaced them, the
\* coordinates (lat, latitude and lng, longitude).
C14_AliasesRead ==
  (script \in LookupScripts /\ pc = "done") =>
    \A j \in 1..Len(rows) :
      LET row == rows[j]
          b == store.json[j]
          name == FirstOf(row, <<"bar_name", "name">>)
          price == FirstOf(row, <<"price", "cheapest_beer_sek">>)
          dance == FirstOf(row, <<"dance_floor", "danceFloor">>)
          notes == FirstOf(row, <<"dance_notes", "danceNotes">>)
          lat == FirstOf(row, <<"lat", "latitude">>)
          lng == FirstOf(row, <<"lng", "longitude">>)
      IN /\ Truthy(name) => b.bar_name = JStr(StripQuotes(name.s))
         /\ price # JNull => b.price = JsonNumber(ParseInt(StrOrEmpty(price)))
         /\ Truthy(dance) => b.dance_floor = JStr(ToLowerCase(dance.s))
         /\ Truthy(notes) => b.dance_notes = notes
         /\ (lat # JNull /\ b.lat \notin LookupCoords) => b.lat = JsonNumber(ParseNumber(lat))
         /\ (lng # JNull /\ b.lng \notin LookupCoords) => b.lng = JsonNumber(ParseNumber(lng))

\* the slug of a name: lower case, every run of blanks a hyphen
Slug(name) == ReplaceWsRuns(ToLowerCase(name), "-")

\* C15: in the store a geocode or Places run has written, a record whose
\* row carries an id has that id, a record whose row carries none has the
\* slug of its name, and no two records have the same id.
C15_UniqueIds ==
  (script \in LookupScripts /\ pc = "done") =>
    /\ \A j \in 1..Len(rows) :
         store.json[j].id =
           IF Truthy(rows[j].id) THEN rows[j].id ELSE JStr(Slug(BarName(rows[j])))
    /\ \A a, b \in 1..Len(store.json) :
         store.json[a].id = store.json[b].id => a = b

\* C16: a record whose row has a non-empty correct_address is written to
\* bars.json with that value as its correct_address and as its location,
\* whatever the lookups answered, and the CSV generator and the Places
\* script's CSV put that value in the address and correct_address columns.
C16_CorrectAddressPrevails ==
  (script \in LookupScripts /\ pc = "done") =>
    \A j \in 1..Len(rows) :
      LET given == CorrectAddr(rows[j])
          b == store.json[j]
      IN Truthy(given) =>
           /\ Field(b, "correct_address") = given
           /\ b.location = given
           /\ GeneratorRow(b)[3] = escapeCsv(given)
           /\ GeneratorRow(b)[4] = escapeCsv(given)
           /\ script = "places" =>
                /\ PlacesCsvRow(bars[j])[3] = PlacesEscape(given)
                /\ PlacesCsvRow(bars[j])[4] = PlacesEscape(given)

\* the row enters the pass with coordinates, not the city centre, next to
\* an address that is no placeholder
HasResolvedCoords(sc, row) ==
  /\ InputCoord(sc, row.lat).t = "num"
  /\ InputCoord(sc, row.lng).t = "num"
  /\ <<InputCoord(sc, row.lng).n, InputCoord(sc, row.lat).n>> # CenterQ
  /\ ~PlaceholderAddress(ResolvedAddress(sc, row))

\* C17: a record that enters a geocode or Places pass with coordinates
\* resolved from a real address is written with the same coordinates, or
\* with the street-level point a lookup of the pass returned; it is never
\* written with the city centre or with any other value.
C17_ResolvedCoordsKept ==
  (script \in LookupScripts /\ pc = "done") =>
    \A j \in 1..Len(rows) :
      HasResolvedCoords(script, rows[j]) =>
        \/ /\ store.json[j].lat = InputCoord(script, rows[j].lat)
           /\ store.json[j].lng = InputCoord(script, rows[j].lng)
        \/ /\ store.json[j].lat = JNum(CenterP[2])
           /\ store.json[j].lng = JNum(CenterP[1])

\* C18: when the Places script pushes the record of a row whose detail
\* fetch returned a rating, the record it will write to bars.json carries
\* that rating under rating, and a review_count, next to place_id and
\* photo_reference.
C18_RatingWritten ==
  [][(/\ script = "places"
      /\ Len(bars') = Len(bars) + 1
      /\ loc.details.t = "obj"
      /\ loc.details.rating # JNull)
     => LET b == ToJson(bars')[Len(bars')]
        IN /\ {"place_id", "photo_reference"} \subseteq DOMAIN b
           /\ Field(b, "rating") = loc.details.rating
           /\ "review_count" \in DOMAIN b]_vars

\* C19: a remote call that is not the first of the run is issued only
\* after a pacing delay has elapsed since the call before it, also when
\* that call failed or threw.
C19_PacedCalls ==
  [][(Len(calls') > Len(calls) /\ calls # <<>>) => paced]_vars

\* C20: as long as a run has not reached its write, the store is what the
\* previous run left, so a run that ends at any earlier point leaves it
\* untouched; once the run is done the store has been written exactly once
\* and holds exactly the records built from all the rows, nothing of the
\* previous content.
C20_WrittenOnceAtEnd ==
  script \in Scripts =>
    /\ pc # "done" => store = PrevStore(script, env, rows)
    /\ pc = "done" =>
         /\ store.writes = 1
         /\ Len(bars) = Len(rows)
         /\ store.json = ToJson(bars)

\* a run over two rows or more has replaced a store that held something else
C20_Witness ==
  /\ script \in LookupScripts
  /\ pc = "done"
  /\ Len(rows) >= 2
  /\ PrevStore(script, env, rows).json # <<>>
  /\ store.json # PrevStore(script, env, rows).json
  /\ store.writes = 1

\* C21: every remote call is made for the row in progress, which is the one
\* after the rows whose records have been built, so the calls of a row
\* start only when the row before it is finished; and the written store
\* holds one record per input row, in the order of the rows.
C21_RowsInOrder ==
  script \in Scripts =>
    /\ \A k \in 1..Len(calls) : calls[k].row <= Len(bars) + 1
    /\ \A k \in 1..(Len(calls) - 1) : calls[k].row <= calls[k + 1].row
    /\ pc = "done" =>
         /\ Len(store.json) = Len(rows)
         /\ \A j \in 1..Len(rows) :
              LET row == rows[j]
                  b == store.json[j]
              IN IF script = "moods"
                 THEN /\ b.bar_name = row.bar_name
                      /\ b.place_id = row.place_id
                 ELSE /\ b.id = BarId(row)
                      /\ b.bar_name = JStr(BarName(row))
                      /\ b.dance_floor = DanceFloor(row)
                      /\ b.price =
                           JsonNumber(IF row.price.t # "null"
                                      THEN ParseInt(StrOrEmpty(row.price)) ELSE JNull)

\* a finished run over two different rows, with a remote call for each
C21_Witness ==
  /\ pc = "done"
  /\ Len(rows) >= 2
  /\ rows[1] # rows[2]
  /\ \E a, b \in 1..Len(calls) : calls[a].row = 1 /\ calls[b].row = 2
  /\ store.json[1] # store.json[2]

\* C22: each credential function returns the value of the process
\* environment when one is set, otherwise the value of a local file (.env,
\* or env-config.js for the Mapbox token), otherwise nothing.
C22_EnvironmentFirst ==
  script = "cred" =>
    \A k \in 1..Len(vout) :
      vout[k].out =
        IF vin.proc # <<>> THEN Trim(vin.proc)
        ELSE IF vin.file # <<>> THEN vin.file
        ELSE IF vout[k].fn = "getToken" THEN vin.config
        ELSE <<>>

\* C23: when the Places script pushes the record of a row whose place
\* lookup succeeded and whose detail fetch failed (threw, or a status other
\* than OK), the record has the coordinates, the address and the place_id
\* of the place, photo_reference null, and the vibes of a row without rating.
C23_DetailFailureKeepsPlace ==
  [][(/\ script = "places"
      /\ Len(bars') = Len(bars) + 1
      /\ PlaceUsable(loc.place)
      /\ calls # <<>>
      /\ calls[Len(calls)].api = "details"
      /\ calls[Len(calls)].row = i
      /\ calls[Len(calls)].kind = "error")
     => LET b == bars'[Len(bars')]
        IN /\ b.lat = loc.place.lat
           /\ b.lng = loc.place.lng
           /\ b.location = loc.place.formatted_address
           /\ b.place_id = loc.place.place_id
           /\ b.photo_reference = JNull
           /\ b.vibes = JArr(deriveVibes(rows[i], JNull))]_vars

\* a written record of a row whose detail fetch failed after its place
\* lookup had found the place
C23_Witness ==
  /\ script = "places"
  /\ pc = "done"
  /\ \E k \in 1..Len(calls) :
       /\ calls[k].api = "details"
       /\ calls[k].kind = "error"
       /\ store.json[calls[k].row].place_id = JStr(Txt.Place)
       /\ store.json[calls[k].row].lat = JNum(CenterP[2])
       /\ store.json[calls[k].row].photo_reference = JNull

\* C24: when a Places run is done, it has written one record per input
\* row, its updated counter is the number of rows whose coordinates were
\* replaced by those of the place found, and its failed counter is the
\* number of rows whose lookup produced no place (it threw, answered an
\* error status, or found nothing).
C24_CountersExact ==
  (script = "places" /\ pc = "done") =>
    LET FindKinds(j) == {calls[k].kind : k \in {m \in CallsForRow(j) : calls[m].api = "findplace"}}
    IN /\ Len(store.json) = Len(rows)
       /\ counters.updated = Cardinality({j \in 1..Len(rows) : "ok" \in FindKinds(j)})
       /\ counters.failed =
            Cardinality({j \in 1..Len(rows) : FindKinds(j) \cap {"error", "zero"} # {}})

\* C25: in the store a geocode or Places run has written, every record
\* still has the place_id, photo_reference, vibes and moods that its input
\* record carried.
C25_EnrichmentKept ==
  (script \in LookupScripts /\ pc = "done") =>
    \A j \in 1..Len(rows) :
      \A f \in {"place_id", "photo_reference", "vibes", "moods"} :
        rows[j][f] # JNull => Field(store.json[j], f) = rows[j][f]

C27_ServesOnlyInsideRoot ==
  script = "server" =>
    \A k \in 1..Len(vout) :
      LET segs == Segments(vout[k].path)
          root == Segments(ServerRoot)
          inside == Len(segs) >= Len(root) /\ SubSeq(segs, 1, Len(root)) = root
      IN /\ vout[k].read => inside
         /\ ~inside => vout[k].status = 403
====
